---- MODULE Spec2Model ----
(***************************************************************************)
(* The operator dispatch core of ggml-cann/aclnn_ops.h:                    *)
(*   GGML_CANN_CALL_ACLNN_OP  (the two-phase "size, then execute" call),   *)
(*   bcast_shape              (the broadcast resolver),                    *)
(*   ggml_cann_binary_op / ggml_cann_unary_op (the dispatch templates).    *)
(* One host thread (the graph engine) runs dispatch calls one after the    *)
(* other; every context owns one memory pool and one in-order stream, and  *)
(* the device drains each stream asynchronously.                           *)
(***************************************************************************)
EXTENDS Integers, Sequences, FiniteSets, TLC

\* ------------------------------------------------------------------ bounds
MaxCalls  == 2      \* dispatch calls the graph engine makes in one run
MaxWs     == 1      \* largest scratch size a query reports
MaxExtent == 3      \* largest extent of a dimension in the resolver's inputs

\* --------------------------------------------------------------- constants
GGML_MAX_DIMS == 4  \* the graph engine's fixed maximum tensor rank
ACL_SUCCESS   == 0  \* the designated success status

Contexts == {1, 2}              \* accelerator contexts: one pool, one stream each
Addr     == {1, 2}              \* the regions a pool can hand out
Status   == {ACL_SUCCESS, 1}    \* success, and one representative failure
Dims     == 1..GGML_MAX_DIMS

NULL   == [pool |-> 0, addr |-> 0]          \* nullptr
NoNode == [k |-> "none"]                    \* no operator node being dispatched

\* ------------------------------------------------------------- descriptors
\* Size in bytes of one element of a type.
ggml_type_size(type) == IF type = "F16" THEN 2 ELSE 4

\* A contiguous tensor descriptor (ggml_tensor) of extents ne: byte strides
\* nb[1] = element size, nb[i] = nb[i-1] * ne[i-1].
Tensor(name, type, ne) ==
    [ne   |-> ne,
     nb   |-> [i \in Dims |->
                 IF i = 1 THEN ggml_type_size(type)
                 ELSE IF i = 2 THEN ggml_type_size(type) * ne[1]
                 ELSE IF i = 3 THEN ggml_type_size(type) * ne[1] * ne[2]
                 ELSE ggml_type_size(type) * ne[1] * ne[2] * ne[3]],
     type |-> type,
     data |-> name]

Max(a, b) == IF a >= b THEN a ELSE b

\* An operator node with two sources, as the graph engine builds it: the
\* destination has the broadcast shape of the sources.
BinaryNode(type, ne0, ne1) ==
    [k    |-> "binary",
     src0 |-> Tensor("src0", type, ne0),
     src1 |-> Tensor("src1", type, ne1),
     dst  |-> Tensor("dst", type, [i \in Dims |-> Max(ne0[i], ne1[i])])]

\* An operator node with one source; the destination has the source's shape.
UnaryNode(type, ne0) ==
    [k    |-> "unary",
     src0 |-> Tensor("src0", type, ne0),
     src1 |-> Tensor("src0", type, ne0),
     dst  |-> Tensor("dst", type, ne0)]

\* ------------------------------------------------------ tensor-handle adapter
\* ggml_cann_create_tensor with the strides left in bytes.
ggml_cann_create_tensor_bytes(id, owner, t) ==
    [id     |-> id,
     owner  |-> owner,
     ne     |-> t.ne,
     stride |-> t.nb,
     type   |-> t.type,
     data   |-> t.data]

\* ggml_cann_create_tensor(tensor): the handle encodes the descriptor's
\* extents, its strides converted from bytes to elements, its type and its
\* data pointer; no data is copied.
ggml_cann_create_tensor(id, owner, t) ==
    [id     |-> id,
     owner  |-> owner,
     ne     |-> t.ne,
     stride |-> [i \in Dims |-> t.nb[i] \div ggml_type_size(t.type)],
     type   |-> t.type,
     data   |-> t.data]

\* ggml_cann_create_tensor(tensor, bcast_ne, bcast_nb): the same with the
\* extents and byte strides of a broadcast plan in place of the descriptor's.
ggml_cann_create_tensor_bcast(id, owner, t, bne, bnb) ==
    [id     |-> id,
     owner  |-> owner,
     ne     |-> bne,
     stride |-> [i \in Dims |-> bnb[i] \div ggml_type_size(t.type)],
     type   |-> t.type,
     data   |-> t.data]

\* --------------------------------------------------------- broadcast resolver
\* A dimension where the extents differ and neither is 1.
Mismatch(ne0, ne1, i) == ne0[i] # ne1[i] /\ ne0[i] # 1 /\ ne1[i] # 1

\* CanBcast looking at the innermost dimension only.
CanBcast_innermost(ne0, ne1) == ~Mismatch(ne0, ne1, 1)

\* Whether the two shapes can be reconciled.
CanBcast(ne0, ne1) == \A i \in Dims : ~Mismatch(ne0, ne1, i)

\* The virtual extents of operand `a` against operand `b`: an extent 1 of a
\* dimension where b is larger is repeated to b's extent.
BcastNe(a, b) == [i \in Dims |-> IF a.ne[i] = 1 /\ b.ne[i] # 1 THEN b.ne[i] ELSE a.ne[i]]

\* BcastNb with the descriptor's strides kept along expanded dimensions.
BcastNb_kept(a, b) == [i \in Dims |-> a.nb[i]]

\* The byte strides of that virtual shape: 0 along every expanded dimension.
BcastNb(a, b) == [i \in Dims |-> IF a.ne[i] = 1 /\ b.ne[i] # 1 THEN 0 ELSE a.nb[i]]

\* bcast_shape with the destination handle built from src0's descriptor.
bcast_shape_dst_from_src0(n, owner, id0, id1, id2) ==
    IF n.src0.ne = n.src1.ne
    THEN [src0 |-> ggml_cann_create_tensor(id0, owner, n.src0),
          src1 |-> ggml_cann_create_tensor(id1, owner, n.src1),
          dst  |-> ggml_cann_create_tensor(id2, owner, n.src0)]
    ELSE [src0 |-> ggml_cann_create_tensor_bcast(id0, owner, n.src0,
                       BcastNe(n.src0, n.src1), BcastNb(n.src0, n.src1)),
          src1 |-> ggml_cann_create_tensor_bcast(id1, owner, n.src1,
                       BcastNe(n.src1, n.src0), BcastNb(n.src1, n.src0)),
          dst  |-> ggml_cann_create_tensor(id2, owner, n.src0)]

\* bcast_shape(src0, src1, dst, &acl_src0, &acl_src1, &acl_dst): the three
\* handles, given the ids to give them.
bcast_shape(n, owner, id0, id1, id2) ==
    IF n.src0.ne = n.src1.ne
    THEN [src0 |-> ggml_cann_create_tensor(id0, owner, n.src0),
          src1 |-> ggml_cann_create_tensor(id1, owner, n.src1),
          dst  |-> ggml_cann_create_tensor(id2, owner, n.dst)]
    ELSE [src0 |-> ggml_cann_create_tensor_bcast(id0, owner, n.src0,
                       BcastNe(n.src0, n.src1), BcastNb(n.src0, n.src1)),
          src1 |-> ggml_cann_create_tensor_bcast(id1, owner, n.src1,
                       BcastNe(n.src1, n.src0), BcastNb(n.src1, n.src0)),
          dst  |-> ggml_cann_create_tensor(id2, owner, n.dst)]

\* ---------------------------------------------------------------------- state
VARIABLES
    pc,                  \* the host thread's position (a source line) or idle/aborted
    fail,                \* which check ended the process: none/bcast/query/exec/destroy
    node,                \* the operator node being dispatched (read only)
    ctx,                 \* the context of the current call
    ncalls,              \* dispatch calls begun so far; the current call's number
    acl,                 \* acl_src0 / acl_src1 / acl_dst of the current call
    args,                \* the handles passed to the operator procedure
    live,                \* the device tensor handles that exist
    nh,                  \* handles created so far
    workspaceSize,       \* the macro's locals
    executor,
    workspaceAddr,
    workspace_allocator, \* the region the scoped ggml_cann_pool_alloc holds
    nq,                  \* queries issued so far (names the executor of each)
    pool,                \* per context: the regions handed out and not yet returned
    stream,              \* per context: the tasks submitted and not yet started
    running,             \* per context: the tasks executing on the device
    done,                \* per context: the tasks completed, in completion order
    nt,                  \* tasks submitted so far
    log                  \* the calls the current dispatch has made, in order

vars == <<pc, fail, node, ctx, ncalls, acl, args, live, nh, workspaceSize, executor,
          workspaceAddr, workspace_allocator, nq, pool, stream, running, done, nt, log>>

hostLocals == <<workspaceSize, executor, workspaceAddr, workspace_allocator>>
deviceVars == <<stream, running, done>>

NoHandle == [id |-> 0]
NoAcl    == [src0 |-> NoHandle, src1 |-> NoHandle, dst |-> NoHandle]

\* One entry of the log: what was called, with which handles, and the status,
\* size, address, executor and context (pool or stream) it carried.
Ev(ev, hs, st, sz, ad, ex, cx) ==
    [ev |-> ev, hs |-> hs, st |-> st, sz |-> sz, ad |-> ad, ex |-> ex, cx |-> cx]

\* The nodes the graph engine dispatches: a unary one, and binary ones whose
\* sources are equal in shape, need src1 or src0 expanded, or cannot be
\* reconciled (logical shapes (2,3) and (2,4)).
UnaryNodes  == {UnaryNode("F32", <<3, 1, 1, 1>>), UnaryNode("F16", <<3, 2, 1, 1>>)}
BinaryNodes == {BinaryNode("F32", <<3, 2, 1, 1>>, <<3, 2, 1, 1>>),
                BinaryNode("F32", <<3, 2, 1, 1>>, <<1, 2, 1, 1>>),
                BinaryNode("F16", <<1, 2, 1, 1>>, <<3, 2, 1, 1>>),
                BinaryNode("F32", <<3, 2, 1, 1>>, <<4, 2, 1, 1>>),
                BinaryNode("F16", <<2, 3, 1, 1>>, <<2, 2, 1, 1>>),
                BinaryNode("F32", <<1, 1, 2, 1>>, <<3, 1, 3, 1>>),
                BinaryNode("F32", <<2, 1, 1, 2>>, <<2, 1, 1, 3>>)}

Init ==
    /\ pc = "idle" /\ fail = "none" /\ node = NoNode /\ ctx = 0 /\ ncalls = 0
    /\ acl = NoAcl /\ args = <<>> /\ live = {} /\ nh = 0
    /\ workspaceSize = 0 /\ executor = 0 /\ workspaceAddr = NULL
    /\ workspace_allocator = NULL /\ nq = 0
    /\ pool = [c \in Contexts |-> {}]
    /\ stream = [c \in Contexts |-> <<>>]
    /\ running = [c \in Contexts |-> {}]
    /\ done = [c \in Contexts |-> <<>>]
    /\ nt = 0 /\ log = <<>>

\* ACL_CHECK(stmt): a status other than success ends the process.
ACL_CHECK(st) == st = ACL_SUCCESS

\* The process has stopped at a failed check.
Abort(why) == pc' = "aborted" /\ fail' = why

\* ----------------------------------------------------- ggml_cann_unary_op
\* The graph engine calls ggml_cann_unary_op<unary_op>(ctx, dst).
unary_enter ==
    /\ pc = "idle" /\ ncalls < MaxCalls
    /\ \E c \in Contexts, n \in UnaryNodes :
         /\ ctx' = c /\ node' = n
    /\ ncalls' = ncalls + 1
    /\ pc' = "u701" /\ acl' = NoAcl /\ args' = <<>> /\ log' = <<>>
    /\ UNCHANGED <<fail, live, nh, hostLocals, nq, pool, deviceVars, nt>>

\* aclTensor* acl_src = ggml_cann_create_tensor(src);
u701 ==
    /\ pc = "u701"
    /\ LET h == ggml_cann_create_tensor(nh + 1, ncalls, node.src0) IN
         /\ acl' = [acl EXCEPT !.src0 = h]
         /\ live' = live \cup {h}
         /\ log' = Append(log, Ev("create", <<h.id>>, ACL_SUCCESS, 0, NULL, 0, 0))
    /\ nh' = nh + 1
    /\ pc' = "u702"
    /\ UNCHANGED <<fail, node, ctx, ncalls, args, hostLocals, nq, pool, deviceVars, nt>>

\* aclTensor* acl_dst = ggml_cann_create_tensor(dst);
u702 ==
    /\ pc = "u702"
    /\ LET h == ggml_cann_create_tensor(nh + 1, ncalls, node.dst) IN
         /\ acl' = [acl EXCEPT !.dst = h]
         /\ live' = live \cup {h}
         /\ log' = Append(log, Ev("create", <<h.id>>, ACL_SUCCESS, 0, NULL, 0, 0))
    /\ nh' = nh + 1
    /\ pc' = "u704"
    /\ UNCHANGED <<fail, node, ctx, ncalls, args, hostLocals, nq, pool, deviceVars, nt>>

\* Entering the operator procedure with the handles hs: the macro's locals
\* are declared (workspaceSize = 0, executor unset, workspaceAddr = nullptr).
CallOp(hs) ==
    /\ args' = hs
    /\ log' = Append(log, Ev("op", hs, ACL_SUCCESS, 0, NULL, 0, ctx))
    /\ workspaceSize' = 0 /\ executor' = 0 /\ workspaceAddr' = NULL
    /\ workspace_allocator' = NULL
    /\ pc' = "m625"

\* u704 passing the handles cached from an earlier invocation, when there is one.
u704_cached ==
    /\ pc = "u704"
    /\ IF \E j \in 1..Len(log) : log[j].ev = "op"
       THEN CallOp(log[CHOOSE j \in 1..Len(log) : log[j].ev = "op"].hs)
       ELSE CallOp(<<acl.src0, acl.dst>>)
    /\ UNCHANGED <<fail, node, ctx, ncalls, acl, live, nh, nq, pool, deviceVars, nt>>

\* u704 with the two handles passed in the opposite order.
u704_swapped ==
    /\ pc = "u704"
    /\ CallOp(<<acl.dst, acl.src0>>)
    /\ UNCHANGED <<fail, node, ctx, ncalls, acl, live, nh, nq, pool, deviceVars, nt>>

\* unary_op(ctx, acl_src, acl_dst);
u704 ==
    /\ pc = "u704"
    /\ CallOp(<<acl.src0, acl.dst>>)
    /\ UNCHANGED <<fail, node, ctx, ncalls, acl, live, nh, nq, pool, deviceVars, nt>>

\* Destroy with the status of aclDestroyTensor left unchecked.
Destroy_unchecked(h, next) ==
    \E st \in Status :
        /\ log' = Append(log, Ev("destroy", <<h.id>>, st, 0, NULL, 0, 0))
        /\ live' = IF st = ACL_SUCCESS THEN live \ {h} ELSE live
        /\ pc' = next /\ fail' = fail
        /\ IF next = "idle"
           THEN node' = NoNode /\ ctx' = 0 /\ acl' = NoAcl /\ args' = <<>>
           ELSE UNCHANGED <<node, ctx, acl, args>>
        /\ UNCHANGED <<ncalls, nh, hostLocals, nq, pool, deviceVars, nt>>

\* ACL_CHECK(aclDestroyTensor(h)) followed by the code at `next`: the handle
\* is destroyed when the call succeeds; a failed call ends the process. With
\* next = "idle" the dispatch function returns and its frame is gone.
Destroy(h, next) ==
    \E st \in Status :
        /\ log' = Append(log, Ev("destroy", <<h.id>>, st, 0, NULL, 0, 0))
        /\ IF ACL_CHECK(st)
           THEN /\ live' = live \ {h}
                /\ pc' = next /\ fail' = fail
                /\ IF next = "idle"
                   THEN node' = NoNode /\ ctx' = 0 /\ acl' = NoAcl /\ args' = <<>>
                   ELSE UNCHANGED <<node, ctx, acl, args>>
           ELSE /\ live' = live
                /\ Abort("destroy")
                /\ UNCHANGED <<node, ctx, acl, args>>
        /\ UNCHANGED <<ncalls, nh, hostLocals, nq, pool, deviceVars, nt>>

\* ACL_CHECK(aclDestroyTensor(acl_src));
u705 == pc = "u705" /\ Destroy(acl.src0, "u706")

\* u706 without the destroy call: the function just returns.
u706_skipped ==
    /\ pc = "u706"
    /\ pc' = "idle" /\ node' = NoNode /\ ctx' = 0 /\ acl' = NoAcl /\ args' = <<>>
    /\ UNCHANGED <<fail, ncalls, live, nh, hostLocals, nq, pool, deviceVars, nt, log>>

\* ACL_CHECK(aclDestroyTensor(acl_dst)); and the function returns.
u706 == pc = "u706" /\ Destroy(acl.dst, "idle")

\* ---------------------------------------------------- ggml_cann_binary_op
\* The graph engine calls ggml_cann_binary_op<binary_op>(ctx, dst).
binary_enter ==
    /\ pc = "idle" /\ ncalls < MaxCalls
    /\ \E c \in Contexts, n \in BinaryNodes :
         /\ ctx' = c /\ node' = n
    /\ ncalls' = ncalls + 1
    /\ pc' = "b676" /\ acl' = NoAcl /\ args' = <<>> /\ log' = <<>>
    /\ UNCHANGED <<fail, live, nh, hostLocals, nq, pool, deviceVars, nt>>

\* b676 with the virtual shapes written back into the source descriptors.
b676_rewriting ==
    /\ pc = "b676"
    /\ IF CanBcast(node.src0.ne, node.src1.ne)
       THEN LET r == bcast_shape(node, ncalls, nh + 1, nh + 2, nh + 3) IN
              /\ acl' = r
              /\ live' = live \cup {r.src0, r.src1, r.dst}
              /\ nh' = nh + 3
              /\ log' = log \o <<Ev("create", <<r.src0.id>>, ACL_SUCCESS, 0, NULL, 0, 0),
                                 Ev("create", <<r.src1.id>>, ACL_SUCCESS, 0, NULL, 0, 0),
                                 Ev("create", <<r.dst.id>>, ACL_SUCCESS, 0, NULL, 0, 0)>>
              /\ node' = [node EXCEPT !.src0.ne = r.src0.ne, !.src1.ne = r.src1.ne]
              /\ pc' = "b677" /\ fail' = fail
       ELSE /\ Abort("bcast")
            /\ UNCHANGED <<node, acl, live, nh, log>>
    /\ UNCHANGED <<ctx, ncalls, args, hostLocals, nq, pool, deviceVars, nt>>

\* bcast_shape(src0, src1, dst, &acl_src0, &acl_src1, &acl_dst);
b676 ==
    /\ pc = "b676"
    /\ IF CanBcast(node.src0.ne, node.src1.ne)
       THEN LET r == bcast_shape(node, ncalls, nh + 1, nh + 2, nh + 3) IN
              /\ acl' = r
              /\ live' = live \cup {r.src0, r.src1, r.dst}
              /\ nh' = nh + 3
              /\ log' = log \o <<Ev("create", <<r.src0.id>>, ACL_SUCCESS, 0, NULL, 0, 0),
                                 Ev("create", <<r.src1.id>>, ACL_SUCCESS, 0, NULL, 0, 0),
                                 Ev("create", <<r.dst.id>>, ACL_SUCCESS, 0, NULL, 0, 0)>>
              /\ pc' = "b677" /\ fail' = fail
       ELSE /\ Abort("bcast")
            /\ UNCHANGED <<acl, live, nh, log>>
    /\ UNCHANGED <<node, ctx, ncalls, args, hostLocals, nq, pool, deviceVars, nt>>

\* b677 with the two source handles passed in the opposite order.
b677_swapped ==
    /\ pc = "b677"
    /\ CallOp(<<acl.src1, acl.src0, acl.dst>>)
    /\ UNCHANGED <<fail, node, ctx, ncalls, acl, live, nh, nq, pool, deviceVars, nt>>

\* binary_op(ctx, acl_src0, acl_src1, acl_dst);
b677 ==
    /\ pc = "b677"
    /\ CallOp(<<acl.src0, acl.src1, acl.dst>>)
    /\ UNCHANGED <<fail, node, ctx, ncalls, acl, live, nh, nq, pool, deviceVars, nt>>

\* ACL_CHECK(aclDestroyTensor(acl_src0));
b679 == pc = "b679" /\ Destroy(acl.src0, "b680")

\* b680 destroying acl_src0 a second time in place of acl_src1.
b680_again == pc = "b680" /\ Destroy(acl.src0, "b681")

\* ACL_CHECK(aclDestroyTensor(acl_src1));
b680 == pc = "b680" /\ Destroy(acl.src1, "b681")

\* ACL_CHECK(aclDestroyTensor(acl_dst)); and the function returns.
b681 == pc = "b681" /\ Destroy(acl.dst, "idle")

\* ------------------------------------------------ GGML_CANN_CALL_ACLNN_OP
\* m625 with the query's status left unchecked.
m625_unchecked ==
    /\ pc = "m625"
    /\ nq' = nq + 1
    /\ \E st \in Status, sz \in 0..MaxWs :
         /\ st # ACL_SUCCESS => sz = 0
         /\ log' = Append(log, Ev("query", args, st, sz, NULL, nq + 1, 0))
         /\ workspaceSize' = sz /\ executor' = nq + 1
         /\ pc' = "m627" /\ fail' = fail
    /\ UNCHANGED <<node, ctx, ncalls, acl, args, live, nh, workspaceAddr,
                   workspace_allocator, pool, deviceVars, nt>>

\* ACL_CHECK(aclnn##OP_NAME##GetWorkspaceSize(__VA_ARGS__, &workspaceSize, &executor));
\* the query reports a status and, on success, a size and a fresh executor.
m625 ==
    /\ pc = "m625"
    /\ nq' = nq + 1
    /\ \E st \in Status, sz \in 0..MaxWs :
         /\ st # ACL_SUCCESS => sz = 0
         /\ log' = Append(log, Ev("query", args, st, sz, NULL, nq + 1, 0))
         /\ IF ACL_CHECK(st)
            THEN /\ workspaceSize' = sz /\ executor' = nq + 1
                 /\ pc' = "m627" /\ fail' = fail
            ELSE /\ Abort("query")
                 /\ UNCHANGED <<workspaceSize, executor>>
    /\ UNCHANGED <<node, ctx, ncalls, acl, args, live, nh, workspaceAddr,
                   workspace_allocator, pool, deviceVars, nt>>

\* m627 without the test: the pool is asked whatever the size.
m627_always ==
    /\ pc = "m627"
    /\ pc' = "m628"
    /\ UNCHANGED <<fail, node, ctx, ncalls, acl, args, live, nh, hostLocals, nq, pool,
                   deviceVars, nt, log>>

\* if (workspaceSize > 0) {
m627 ==
    /\ pc = "m627"
    /\ \/ workspaceSize > 0 /\ pc' = "m628"
       \/ ~(workspaceSize > 0) /\ pc' = "m631"
    /\ UNCHANGED <<fail, node, ctx, ncalls, acl, args, live, nh, hostLocals, nq, pool,
                   deviceVars, nt, log>>

\* The regions the pool of context c can hand out now: any region not
\* outstanding, a region released a moment ago included.
PoolFree(c) == Addr \ pool[c]

\* AllocSize rounded up to the next size.
AllocSize_padded == workspaceSize + 1

\* The number of bytes the macro asks the pool for.
AllocSize == workspaceSize

\* ggml_cann_pool_alloc workspace_allocator(ctx.pool(), workspaceSize);
\* workspaceAddr = workspace_allocator.get();
m628 ==
    /\ pc = "m628"
    /\ \E a \in PoolFree(ctx) :
         LET r == [pool |-> ctx, addr |-> a] IN
           /\ pool' = [pool EXCEPT ![ctx] = @ \cup {a}]
           /\ workspace_allocator' = r
           /\ workspaceAddr' = r
           /\ log' = Append(log, Ev("alloc", <<>>, ACL_SUCCESS, AllocSize, r, 0, ctx))
    /\ pc' = "m630"
    /\ UNCHANGED <<fail, node, ctx, ncalls, acl, args, live, nh, workspaceSize, executor,
                   nq, deviceVars, nt>>

\* m630 with the allocator kept alive: nothing is returned to the pool.
m630_kept ==
    /\ pc = "m630"
    /\ pc' = "m631"
    /\ UNCHANGED <<fail, node, ctx, ncalls, acl, args, live, nh, hostLocals, nq, pool,
                   deviceVars, nt, log>>

\* } : workspace_allocator leaves its scope and its destructor returns the
\* region to the pool; workspaceAddr keeps the address.
m630 ==
    /\ pc = "m630"
    /\ pool' = [pool EXCEPT ![workspace_allocator.pool] = @ \ {workspace_allocator.addr}]
    /\ log' = Append(log, Ev("free", <<>>, ACL_SUCCESS, 0, workspace_allocator, 0,
                             workspace_allocator.pool))
    /\ workspace_allocator' = NULL
    /\ pc' = "m631"
    /\ UNCHANGED <<fail, node, ctx, ncalls, acl, args, live, nh, workspaceSize, executor,
                   workspaceAddr, nq, deviceVars, nt>>

\* The task an accepted execute call puts on a stream.
Task == [id |-> nt + 1, call |-> ncalls, ws |-> workspaceAddr, sz |-> workspaceSize,
         ex |-> executor]

\* StreamOf giving the stream of the other context.
StreamOf_other(c) == IF c = 1 THEN 2 ELSE 1

\* ctx.stream(): the stream of the invoking context.
StreamOf(c) == c

\* Where the operator procedure returns to.
AfterOp == IF node.k = "unary" THEN "u705" ELSE "b679"

\* m631 with the execute call's status left unchecked.
m631_unchecked ==
    /\ pc = "m631"
    /\ \E st \in Status :
         /\ log' = Append(log, Ev("exec", args, st, workspaceSize, workspaceAddr,
                                  executor, StreamOf(ctx)))
         /\ IF st = ACL_SUCCESS
            THEN /\ stream' = [stream EXCEPT ![StreamOf(ctx)] = Append(@, Task)]
                 /\ nt' = nt + 1
            ELSE UNCHANGED <<stream, nt>>
         /\ workspaceSize' = 0 /\ executor' = 0 /\ workspaceAddr' = NULL
         /\ pc' = AfterOp /\ fail' = fail
    /\ UNCHANGED <<node, ctx, ncalls, acl, args, live, nh, workspace_allocator, nq, pool,
                   running, done>>

\* m631 waiting until the stream has drained before it submits.
m631_drained ==
    /\ pc = "m631"
    /\ stream[StreamOf(ctx)] = <<>> /\ running[StreamOf(ctx)] = {}
    /\ \E st \in Status :
         /\ log' = Append(log, Ev("exec", args, st, workspaceSize, workspaceAddr,
                                  executor, StreamOf(ctx)))
         /\ IF ACL_CHECK(st)
            THEN /\ stream' = [stream EXCEPT ![StreamOf(ctx)] = Append(@, Task)]
                 /\ nt' = nt + 1
                 /\ workspaceSize' = 0 /\ executor' = 0 /\ workspaceAddr' = NULL
                 /\ pc' = AfterOp /\ fail' = fail
            ELSE /\ Abort("exec")
                 /\ UNCHANGED <<stream, nt, workspaceSize, executor, workspaceAddr>>
    /\ UNCHANGED <<node, ctx, ncalls, acl, args, live, nh, workspace_allocator, nq, pool,
                   running, done>>

\* m631 with a failed execute call issued again.
m631_retry ==
    /\ pc = "m631"
    /\ \E st \in Status :
         /\ log' = Append(log, Ev("exec", args, st, workspaceSize, workspaceAddr,
                                  executor, StreamOf(ctx)))
         /\ IF ACL_CHECK(st)
            THEN /\ stream' = [stream EXCEPT ![StreamOf(ctx)] = Append(@, Task)]
                 /\ nt' = nt + 1
                 /\ workspaceSize' = 0 /\ executor' = 0 /\ workspaceAddr' = NULL
                 /\ pc' = AfterOp
            ELSE /\ pc' = IF Len(log) < 12 THEN "m631" ELSE "aborted"
                 /\ UNCHANGED <<stream, nt, workspaceSize, executor, workspaceAddr>>
         /\ fail' = fail
    /\ UNCHANGED <<node, ctx, ncalls, acl, args, live, nh, workspace_allocator, nq, pool,
                   running, done>>

\* ACL_CHECK(aclnn##OP_NAME(workspaceAddr, workspaceSize, executor, ctx.stream()));
\* an accepted call queues the task on the stream and returns at once; the
\* macro's block ends and its locals are gone.
m631 ==
    /\ pc = "m631"
    /\ \E st \in Status :
         /\ log' = Append(log, Ev("exec", args, st, workspaceSize, workspaceAddr,
                                  executor, StreamOf(ctx)))
         /\ IF ACL_CHECK(st)
            THEN /\ stream' = [stream EXCEPT ![StreamOf(ctx)] = Append(@, Task)]
                 /\ nt' = nt + 1
                 /\ workspaceSize' = 0 /\ executor' = 0 /\ workspaceAddr' = NULL
                 /\ pc' = AfterOp /\ fail' = fail
            ELSE /\ Abort("exec")
                 /\ UNCHANGED <<stream, nt, workspaceSize, executor, workspaceAddr>>
    /\ UNCHANGED <<node, ctx, ncalls, acl, args, live, nh, workspace_allocator, nq, pool,
                   running, done>>

\* ------------------------------------------------------------------ device
\* CanStart without the wait for the task before: tasks overlap.
CanStart_overlap(c) == stream[c] # <<>>

\* Whether the device may take the next task of stream c: tasks of one
\* stream execute in queue order, one after the other.
CanStart(c) == stream[c] # <<>> /\ running[c] = {}

\* The device starts the task at the head of stream c.
DeviceStart(c) ==
    /\ CanStart(c)
    /\ running' = [running EXCEPT ![c] = @ \cup {Head(stream[c])}]
    /\ stream' = [stream EXCEPT ![c] = Tail(@)]
    /\ UNCHANGED <<pc, fail, node, ctx, ncalls, acl, args, live, nh, hostLocals, nq,
                   pool, done, nt, log>>

\* DeviceFinish with the task dropped: it leaves the device without a result.
DeviceFinish_dropped(c) ==
    /\ \E t \in running[c] :
         /\ running' = [running EXCEPT ![c] = @ \ {t}]
    /\ UNCHANGED <<pc, fail, node, ctx, ncalls, acl, args, live, nh, hostLocals, nq,
                   pool, stream, done, nt, log>>

\* A task executing on stream c completes: the result is in the destination.
DeviceFinish(c) ==
    /\ \E t \in running[c] :
         /\ running' = [running EXCEPT ![c] = @ \ {t}]
         /\ done' = [done EXCEPT ![c] = Append(@, [id |-> t.id, call |-> t.call])]
    /\ UNCHANGED <<pc, fail, node, ctx, ncalls, acl, args, live, nh, hostLocals, nq,
                   pool, stream, nt, log>>

Host ==
    \/ unary_enter \/ u701 \/ u702 \/ u704 \/ u705 \/ u706
    \/ binary_enter \/ b676 \/ b677 \/ b679 \/ b680 \/ b681
    \/ m625 \/ m627 \/ m628 \/ m630 \/ m631

Device == \E c \in Contexts : DeviceStart(c) \/ DeviceFinish(c)

Next == Host \/ Device

Spec == Init /\ [][Next]_vars

\* ------------------------------------------------- the resolver on its own
\* Every shape of the graph engine's rank with extents up to MaxExtent.
Shapes == [Dims -> 1..MaxExtent]

\* A binary dispatch has been entered and is about to call bcast_shape, on
\* any pair of source shapes.
InitB ==
    /\ \E ty \in {"F32", "F16"}, ne0 \in Shapes, ne1 \in Shapes :
         node = BinaryNode(ty, ne0, ne1)
    /\ pc = "b676" /\ fail = "none" /\ ctx = 1 /\ ncalls = 1
    /\ acl = NoAcl /\ args = <<>> /\ live = {} /\ nh = 0
    /\ workspaceSize = 0 /\ executor = 0 /\ workspaceAddr = NULL
    /\ workspace_allocator = NULL /\ nq = 0
    /\ pool = [c \in Contexts |-> {}]
    /\ stream = [c \in Contexts |-> <<>>]
    /\ running = [c \in Contexts |-> {}]
    /\ done = [c \in Contexts |-> <<>>]
    /\ nt = 0 /\ log = <<>>

NextB == b676

SpecB == InitB /\ [][NextB]_vars

\* ------------------------------------- the unary dispatch invoked repeatedly
\* The graph engine calls ggml_cann_unary_op again and again on the same
\* node and context; the log is kept across the calls, each call's part
\* opened by an "enter" entry that holds the node.
unary_again ==
    /\ pc = "idle" /\ ncalls < MaxCalls
    /\ \E c \in Contexts, n \in UnaryNodes :
         /\ log # <<>> => n = log[1].hs /\ c = log[1].cx
         /\ ctx' = c /\ node' = n
         /\ log' = Append(log, Ev("enter", n, ACL_SUCCESS, 0, NULL, 0, c))
    /\ ncalls' = ncalls + 1
    /\ pc' = "u701" /\ acl' = NoAcl /\ args' = <<>>
    /\ UNCHANGED <<fail, live, nh, hostLocals, nq, pool, deviceVars, nt>>

NextU ==
    \/ unary_again \/ u701 \/ u702 \/ u704 \/ u705 \/ u706
    \/ m625 \/ m627 \/ m628 \/ m630 \/ m631
    \/ Device

SpecU == Init /\ [][NextU]_vars

\* ---------------------------------------------- the device making progress
\* Repeated dispatch on one context with a device that does not stall: a
\* stream whose head can start is started, an executing task completes.
Fairness == \A c \in Contexts : WF_vars(DeviceStart(c)) /\ WF_vars(DeviceFinish(c))

SpecL == Init /\ [][NextU]_vars /\ Fairness

\* ================================================================ properties
\* The positions of the log's entries of one kind.
Idx(ev) == {j \in 1..Len(log) : log[j].ev = ev}

\* Every task that exists in context c, wherever it is.
Submitted(c) ==
    {[id |-> t.id, call |-> t.call] : t \in running[c]}
    \cup {[id |-> stream[c][j].id, call |-> stream[c][j].call] : j \in 1..Len(stream[c])}
    \cup {done[c][j] : j \in 1..Len(done[c])}

\* The tasks of context c the device has not completed.
Pending(c) == running[c] \cup {stream[c][j] : j \in 1..Len(stream[c])}

\* C1: in every invocation of the two-phase call the query is issued exactly
\* once and before the execute call; the execute call is issued only after a
\* successful query, with that query's executor, size and arguments, on the
\* stream of the invoking context, where an accepted task is queued.
C1_QueryThenExecute ==
    /\ Cardinality(Idx("query")) <= 1
    /\ pc \in {"m627", "m628", "m630", "m631"} => Cardinality(Idx("query")) = 1
    /\ \A j \in Idx("exec") :
         /\ \E i \in Idx("query") :
              /\ i < j
              /\ log[i].st = ACL_SUCCESS
              /\ log[j].ex = log[i].ex /\ log[j].sz = log[i].sz /\ log[j].hs = log[i].hs
         /\ \E o \in Idx("op") : o < j /\ log[j].cx = log[o].cx
         /\ log[j].st = ACL_SUCCESS =>
              /\ \E d \in Submitted(log[j].cx) : d.id = nt /\ d.call = ncalls
              /\ \A t \in Pending(log[j].cx) :
                   t.id = nt => t.ex = log[j].ex /\ t.sz = log[j].sz /\ t.ws = log[j].ad

\* C1 witness: an execute call with scratch was accepted after its query.
C1_Witness ==
    \E j \in Idx("exec") : log[j].st = ACL_SUCCESS /\ log[j].sz > 0 /\ Idx("query") # {}

\* C2: the pool is asked for exactly the number of bytes the query reported,
\* and the execute call is given the address the pool returned.
C2_AllocExactlyQuerySize ==
    /\ \A a \in Idx("alloc") :
         \E i \in Idx("query") : i < a /\ log[a].sz = log[i].sz
    /\ \A j \in Idx("exec") :
         /\ log[j].sz > 0 => \E a \in Idx("alloc") : a < j /\ log[j].ad = log[a].ad
         /\ \A a \in Idx("alloc") : log[j].ad = log[a].ad /\ log[j].sz = log[a].sz
    /\ Cardinality(Idx("alloc")) <= 1

\* C2 witness: an execute call was issued with a region the pool handed out.
C2_Witness ==
    \E j \in Idx("exec"), a \in Idx("alloc") : log[a].sz = MaxWs /\ log[j].ad = log[a].ad

\* C3 as claimed: when the execute call is submitted the invocation still
\* holds its scratch region (no release precedes the submission).
C3_HeldAtSubmission ==
    \A j \in Idx("exec") : log[j].sz > 0 => \A f \in Idx("free") : f > j

\* C3 as the code has it: with a nonzero size the region is returned to the
\* pool right after it was acquired and before the execute call is submitted;
\* the release is the pool's next event after the acquire, the region is not
\* outstanding when the call is submitted, and the call still gets its address.
C3_ReleasedBeforeSubmission ==
    /\ \A a \in Idx("alloc") :
         a < Len(log) => log[a + 1].ev = "free" /\ log[a + 1].ad = log[a].ad
    /\ \A j \in Idx("exec") :
         log[j].sz > 0 =>
           /\ log[j - 1].ev = "free" /\ log[j - 1].ad = log[j].ad
           /\ Cardinality(Idx("free")) = 1
    /\ pc = "m631" /\ workspaceSize > 0 =>
         /\ workspace_allocator = NULL
         /\ workspaceAddr # NULL
         /\ workspaceAddr.addr \notin pool[workspaceAddr.pool]

\* C3 witness: an execute call with scratch has been submitted.
C3_Witness ==
    \E j \in Idx("exec") : log[j].sz > 0 /\ log[j].st = ACL_SUCCESS /\ pc = AfterOp

\* C4: no two tasks that use the same scratch region execute at overlapping
\* times, and a task never starts before an earlier submitted task with the
\* same region has completed, although the host released the region before.
C4_NoScratchOverlap ==
    \A c \in Contexts, d \in Contexts :
      /\ \A t \in running[c], u \in running[d] :
           t # u /\ t.ws # NULL => t.ws # u.ws
      /\ \A t \in running[c], u \in Pending(d) :
           t.ws # NULL /\ u.ws = t.ws /\ u # t => u.id > t.id

\* C4 witness: a task executes on a region that the host has released and
\* the pool has handed to the next task, which waits in the queue.
C4_Witness ==
    \E c \in Contexts :
      \E t \in running[c] :
        /\ t.ws # NULL
        /\ t.ws.addr \notin pool[c]
        /\ stream[c] # <<>> /\ Head(stream[c]).ws = t.ws

\* C5: a failed query or execute call is fatal and not retried: after a
\* failed query nothing is acquired and nothing executed, a failed execute
\* call is the only one, and the invocation ends in the hard failure.
C5_FailureIsFatal ==
    /\ \A i \in Idx("query") :
         log[i].st # ACL_SUCCESS =>
           /\ pc = "aborted" /\ fail = "query"
           /\ Idx("alloc") = {} /\ Idx("exec") = {}
           /\ i = Len(log)
    /\ \A j \in Idx("exec") :
         log[j].st # ACL_SUCCESS =>
           /\ pc = "aborted" /\ fail = "exec"
           /\ Idx("exec") = {j}
           /\ j = Len(log)
    /\ Cardinality(Idx("query")) <= 1 /\ Cardinality(Idx("exec")) <= 1
    /\ pc = "aborted" => ~ENABLED Host

\* C5 witness: an execute call failed after a successful query.
C5_Witness ==
    \E j \in Idx("exec") : log[j].st # ACL_SUCCESS /\ pc = "aborted"

\* Handles the current dispatch created, and those it destroyed.
Created   == {log[j].hs[1] : j \in Idx("create")}
Destroyed == {log[j].hs[1] : j \in {d \in Idx("destroy") : log[d].st = ACL_SUCCESS}}

\* C6 as claimed: on every exit of a dispatch call, a failed query, execute
\* or destroy call included, the call has destroyed as many handles as it
\* created.
C6_NoHandleLeak ==
    pc \in {"idle", "aborted"} => Cardinality(Created) = Cardinality(Destroyed)

\* C7: handles never outlive the call that created them: when a dispatch has
\* returned normally every handle it created (two for unary, three for
\* binary) has been destroyed and no handle is live; a live handle always
\* belongs to the call in progress.
C7_NoHandleOutlivesCall ==
    /\ pc = "idle" => live = {} /\ Created = Destroyed
    /\ pc = "idle" /\ ncalls > 0 => Cardinality(Created) \in {2, 3}
    /\ \A h \in live : h.owner = ncalls /\ h.id \in Created \ Destroyed

\* C7 witness: a binary dispatch has returned after destroying three handles.
C7_Witness == pc = "idle" /\ Cardinality(Destroyed) = 3 /\ live = {}

\* The calls that have returned normally.
Returned == IF pc = "idle" THEN 1..ncalls ELSE 1..(ncalls - 1)

\* The calls whose task the device has completed: their result is in the
\* destination's storage.
HasResult == UNION {{done[c][j].call : j \in 1..Len(done[c])} : c \in Contexts}

\* The tasks of call k, each with the stream that holds it.
TasksOf(k) ==
    UNION {{<<c, d.id>> : d \in {e \in Submitted(c) : e.call = k}} : c \in Contexts}

\* C8 as claimed: when an entry point has returned normally the destination
\* already holds the result.
C8_ResultOnReturn == Returned \subseteq HasResult

\* C8 as the code has it: when an entry point has returned normally its task
\* has been accepted by a stream exactly once (queued, executing or
\* completed) and the destination holds the result once the device has
\* completed it; the only other outcome is the hard failure.
C8_SubmittedOnReturn ==
    /\ \A k \in Returned : Cardinality(TasksOf(k)) = 1
    /\ HasResult \subseteq 1..ncalls
    /\ (pc = "aborted") = (fail # "none")
    /\ pc = "aborted" => ncalls \notin Returned

\* C8 witness: a call has returned and its task has not run yet.
C8_Witness == pc = "idle" /\ ncalls \in Returned /\ ncalls \notin HasResult

\* C9: a binary dispatch on sources with a dimension where the extents differ
\* and neither is 1 fails with the broadcast error before anything else
\* happens: no handle, no operator procedure, no query, no execute call.
C9_IncompatibleFailsFirst ==
    (/\ node.k = "binary"
     /\ \E i \in Dims : /\ node.src0.ne[i] # node.src1.ne[i]
                        /\ node.src0.ne[i] # 1 /\ node.src1.ne[i] # 1)
    => /\ pc \in {"b676", "aborted"}
       /\ pc = "aborted" => fail = "bcast"
       /\ log = <<>> /\ acl = NoAcl /\ args = <<>>
       /\ \A c \in Contexts : \A d \in Submitted(c) : d.call # ncalls
       /\ \A h \in live : h.owner # ncalls

\* C9 witness: the dispatch of logical shapes (2,3) and (2,4) has failed.
C9_Witness ==
    /\ pc = "aborted" /\ fail = "bcast"
    /\ node.src0.ne = <<3, 2, 1, 1>> /\ node.src1.ne = <<4, 2, 1, 1>>

Encodes(h, t) ==
    /\ h.ne = t.ne
    /\ \A i \in Dims : h.stride[i] * ggml_type_size(t.type) = t.nb[i]
    /\ h.type = t.type /\ h.data = t.data

\* C11: when src0 and src1 have the same shape the resolver builds the three
\* handles directly from the descriptors of src0, src1 and dst: extents and
\* strides are the descriptor's and no dimension is expanded (no stride 0).
C11_SameShapeDirect ==
    pc # "b676" /\ node.src0.ne = node.src1.ne =>
      /\ pc = "b677"
      /\ Encodes(acl.src0, node.src0)
      /\ Encodes(acl.src1, node.src1)
      /\ Encodes(acl.dst, node.dst)
      /\ \A i \in Dims : /\ acl.src0.stride[i] # 0
                         /\ acl.src1.stride[i] # 0
                         /\ acl.dst.stride[i] # 0

\* C11 witness: two F16 sources of shape (3,2,1,1) resolved to handles with
\* the element strides (1,3,6,6).
C11_Witness ==
    /\ pc = "b677" /\ node.src0.type = "F16"
    /\ node.src0.ne = <<3, 2, 1, 1>> /\ node.src1.ne = <<3, 2, 1, 1>>
    /\ acl.src0.stride = <<1, 3, 6, 6>> /\ acl.src1.stride = <<1, 3, 6, 6>>

\* C12: in every successful resolution, broadcasting or not, the destination
\* handle encodes the destination descriptor's own extents and strides.
C12_DstHandleUnchanged ==
    pc = "b677" =>
      /\ Encodes(acl.dst, node.dst)
      /\ \A i \in Dims : acl.dst.stride[i] # 0

\* C12 witness: a resolution that expanded src0, with the destination handle
\* of the destination's shape.
C12_Witness ==
    /\ pc = "b677"
    /\ node.src0.ne = <<1, 2, 1, 1>> /\ node.src1.ne = <<3, 2, 1, 1>>
    /\ acl.src0.ne = <<3, 2, 1, 1>> /\ acl.dst.ne = node.dst.ne

\* The check that ends the process on a failed call of each kind.
FailOf(ev) == IF ev = "query" THEN "query" ELSE IF ev = "exec" THEN "exec" ELSE "destroy"

\* C13: the status of every device-facing call of a dispatch (query, execute,
\* each handle destruction) is checked: a call that reported a failure is the
\* last thing the dispatch did, the dispatch has failed with that call's
\* error, and a dispatch that returned normally saw only successes.
C13_EveryStatusChecked ==
    /\ \A j \in 1..Len(log) :
         log[j].st # ACL_SUCCESS =>
           /\ log[j].ev \in {"query", "exec", "destroy"}
           /\ pc = "aborted" /\ fail = FailOf(log[j].ev)
           /\ j = Len(log)
    /\ pc = "idle" => \A j \in 1..Len(log) : log[j].st = ACL_SUCCESS
    /\ fail \in {"query", "exec", "destroy"} =>
         log # <<>> /\ log[Len(log)].st # ACL_SUCCESS

\* C13 witness: a handle destruction failed and the dispatch did not return.
C13_Witness ==
    \E j \in Idx("destroy") : log[j].st # ACL_SUCCESS /\ pc = "aborted" /\ fail = "destroy"

\* C14: no step of a dispatch waits for the device: whatever the stream
\* holds, a dispatch in progress can take its next step, so a call returns
\* while the task it submitted is still queued or executing.
C14_NeverWaitsForDevice ==
    pc \notin {"idle", "aborted"} => ENABLED Host

\* C14 witness: a call has returned while an earlier task and its own task
\* are both unfinished, its own still executing or queued behind it.
C14_Witness ==
    /\ pc = "idle"
    /\ \E c \in Contexts :
         /\ \E t \in running[c] : t.call < ncalls
         /\ \E j \in 1..Len(stream[c]) : stream[c][j].call = ncalls

\* C15: once a device-facing call of an invocation has failed, this layer
\* submits nothing more: no later step issues a query or an execute call or
\* puts a task on a stream, and the failure stays.
C15_NoSubmissionAfterFailure ==
    [][(fail # "none" \/ \E j \in 1..Len(log) : log[j].st # ACL_SUCCESS)
       => /\ nt' = nt /\ nq' = nq
          /\ \A c \in Contexts : Len(stream'[c]) <= Len(stream[c])
          /\ Idx("exec")' = Idx("exec")
          /\ fail' = fail /\ pc' = "aborted"]_vars

\* C15 witness: a call failed after its task was submitted, with further
\* calls still to make.
C15_Witness ==
    pc = "aborted" /\ fail = "destroy" /\ nt > 0 /\ ncalls < MaxCalls

\* Whether positions e + 1 .. e + j of the log belong to the invocation
\* entered at position e.
InSeg(e, j) == e + j <= Len(log) /\ \A i \in 1..j : log[e + i].ev # "enter"

\* A handle without what names the object itself: what it encodes, and its
\* number counted from the invocation's first handle.
View(h, base) == [ne |-> h.ne, stride |-> h.stride, type |-> h.type, data |-> h.data,
                  rel |-> h.id - base]

\* The call an entry of invocation k stands for, with its arguments: handles
\* by what they encode, the size passed in, the stream or pool addressed.
CallOf(e, base) ==
    [ev |-> e.ev,
     hs |-> IF e.ev \in {"create", "destroy"} THEN <<e.hs[1] - base>>
            ELSE [i \in 1..Len(e.hs) |-> View(e.hs[i], base)],
     sz |-> IF e.ev \in {"alloc", "exec"} THEN e.sz ELSE 0,
     cx |-> e.cx]

\* What the device answered to that call: its status, and the size a query
\* reported.
AnswerOf(e) == [st |-> e.st, sz |-> IF e.ev = "query" THEN e.sz ELSE 0]

\* The first handle number of the invocation entered at position e.
Base(e) == IF InSeg(e, 1) THEN log[e + 1].hs[1] ELSE 0

C17_DescriptorsUnchanged ==
    [][(node # NoNode /\ node' # NoNode) => node' = node]_vars

\* C17 witness: a binary dispatch has run its operator on a handle that
\* expands an operand, so the handle's extents differ from the descriptor's.
C17_Witness ==
    /\ pc = "b679" /\ node \in BinaryNodes
    /\ acl.src1.ne # node.src1.ne
    /\ acl.src1.data = node.src1.data

\* The calls made inside the operator procedure.
InOp == Idx("op") \cup Idx("query") \cup Idx("alloc") \cup Idx("free") \cup Idx("exec")

\* How many destroy calls the dispatch made before the one at position d.
DestroysBefore(d) == Cardinality({j \in Idx("destroy") : j < d})

\* The log is that of a unary dispatch: known from the node while the call
\* is in progress, from the place of the operator's entry after it returned.
IsUnary ==
    IF node # NoNode THEN node.k = "unary"
    ELSE Len(log) >= 3 /\ log[3].ev = "op"

\* C18: a unary dispatch creates the source handle from dst->src[0], then the
\* destination handle from dst, enters the operator procedure exactly once
\* with (context, source handle, destination handle), and destroys the source
\* handle and then the destination handle only after the operator procedure;
\* it never enters the broadcast resolver.
C18_UnaryOrder ==
    IsUnary =>
      /\ Idx("create") = {1, 2} \cap (1..Len(log))
      /\ Idx("op") = {3} \cap (1..Len(log))
      /\ Len(log) >= 3 =>
           /\ Len(log[3].hs) = 2
           /\ log[3].hs[1].id = log[1].hs[1] /\ log[3].hs[1].data = "src0"
           /\ log[3].hs[2].id = log[2].hs[1] /\ log[3].hs[2].data = "dst"
           /\ node # NoNode => /\ log[3].cx = ctx
                               /\ Encodes(log[3].hs[1], node.src0)
                               /\ Encodes(log[3].hs[2], node.dst)
      /\ \A d \in Idx("destroy") :
           /\ \A j \in InOp : j < d
           /\ \E j \in Idx("exec") : log[j].st = ACL_SUCCESS
           /\ DestroysBefore(d) < 2
           /\ log[d].hs = log[DestroysBefore(d) + 1].hs
      /\ pc \notin {"b676", "b677", "b679", "b680", "b681"}
      /\ fail # "bcast" /\ acl.src1 = NoHandle

\* C18 witness: a unary dispatch has returned after both destroy calls.
C18_Witness ==
    /\ pc = "idle" /\ IsUnary
    /\ Cardinality(Idx("destroy")) = 2

\* The log is that of a binary dispatch.
IsBinary ==
    IF node # NoNode THEN node.k = "binary"
    ELSE Len(log) >= 4 /\ log[4].ev = "op"

\* C19: a binary dispatch enters the broadcast resolver once, before the
\* operator procedure, on (dst->src[0], dst->src[1], dst); it then enters the
\* operator procedure exactly once with the resolver's handles in the order
\* (src0 handle, src1 handle, dst handle), and destroys the three handles
\* only after the operator procedure.
C19_BinaryOrder ==
    IsBinary =>
      /\ Idx("create") = IF Len(log) = 0 THEN {} ELSE {1, 2, 3}
      /\ Idx("op") = {4} \cap (1..Len(log))
      /\ Len(log) >= 4 =>
           /\ Len(log[4].hs) = 3
           /\ \A i \in 1..3 : log[4].hs[i].id = log[i].hs[1]
           /\ log[4].hs[1].data = "src0"
           /\ log[4].hs[2].data = "src1"
           /\ log[4].hs[3].data = "dst"
           /\ node # NoNode =>
                /\ log[4].cx = ctx
                /\ log[4].hs = <<acl.src0, acl.src1, acl.dst>>
                /\ acl = bcast_shape(node, ncalls, log[1].hs[1], log[2].hs[1], log[3].hs[1])
      /\ \A d \in Idx("destroy") :
           /\ \A j \in InOp : j < d
           /\ \E j \in Idx("exec") : log[j].st = ACL_SUCCESS
           /\ DestroysBefore(d) < 3
           /\ log[d].hs = log[DestroysBefore(d) + 1].hs
      /\ pc \notin {"u701", "u702", "u704", "u705", "u706"}

\* C19 witness: a binary dispatch whose source handles differ in strides has
\* returned after its three destroy calls.
C19_Witness ==
    /\ pc = "idle" /\ IsBinary
    /\ Cardinality(Idx("destroy")) = 3
    /\ log[4].hs[1].stride # log[4].hs[2].stride

\* C20: when the query reports size zero the invocation makes no call to the
\* pool, holds no region, leaves the pool as it was, and submits the execute
\* call with a null workspace address and size 0.
C20_ZeroSizeNoPool ==
    /\ \A q \in Idx("query") :
         (log[q].st = ACL_SUCCESS /\ log[q].sz = 0) =>
           /\ Idx("alloc") = {} /\ Idx("free") = {}
           /\ \A j \in Idx("exec") : log[j].sz = 0 /\ log[j].ad = NULL
           /\ \A j \in Idx("exec") : \A t \in Pending(log[j].cx) :
                t.call = ncalls => t.sz = 0 /\ t.ws = NULL
    /\ (pc \in {"m627", "m631"} /\ workspaceSize = 0) =>
           /\ workspace_allocator = NULL /\ workspaceAddr = NULL
           /\ pool = [c \in Contexts |-> {}]

\* C20 witness: an execute call with size 0 and a null address was accepted
\* and its task is on the device's side.
C20_Witness ==
    /\ \E j \in Idx("exec") :
         /\ log[j].st = ACL_SUCCESS /\ log[j].sz = 0 /\ log[j].ad = NULL
         /\ \E t \in Pending(log[j].cx) : t.call = ncalls /\ t.sz = 0 /\ t.ws = NULL
    /\ Idx("alloc") = {}

\* The handles an accepted destroy call of the current dispatch destroyed.
Gone == {log[d].hs[1] : d \in {j \in Idx("destroy") : log[j].st = ACL_SUCCESS}}

\* C21: in both dispatch templates a handle is destroyed at most once and
\* only after the operator procedure has returned: while the operator
\* procedure runs every handle it was given exists and was created by this
\* dispatch call, no two destroy calls name the same handle, and a destroyed
\* handle exists no more.
C21_HandlesLiveAndOwned ==
    /\ \A j \in Idx("op") : \A i \in 1..Len(log[j].hs) :
         /\ log[j].hs[i].owner = ncalls
         /\ \A k \in 1..Len(log[j].hs) : k # i => log[j].hs[k].id # log[j].hs[i].id
    /\ pc \in {"m625", "m627", "m628", "m630", "m631"} =>
         /\ Idx("destroy") = {}
         /\ \A i \in 1..Len(args) : args[i] \in live /\ args[i].owner = ncalls
    /\ (fail \in {"query", "exec"}) => Idx("destroy") = {}
    /\ \A d1 \in Idx("destroy"), d2 \in Idx("destroy") :
         d1 # d2 => log[d1].hs # log[d2].hs
    /\ \A d \in Idx("destroy") :
         /\ \E j \in Idx("op") : j < d /\ \E i \in 1..Len(log[j].hs) : log[j].hs[i].id = log[d].hs[1]
         /\ \E j \in Idx("exec") : j < d /\ log[j].st = ACL_SUCCESS
    /\ \A h \in live : h.id \notin Gone

\* C21 witness: the second dispatch call, a binary one, has returned after
\* three accepted destroy calls, the first call's handles long gone.
C21_Witness ==
    /\ pc = "idle" /\ ncalls = 2 /\ live = {}
    /\ Cardinality(Gone) = 3
    /\ \E j \in Idx("op") : \A i \in 1..Len(log[j].hs) : log[j].hs[i].owner = 2

\* No region of any pool is outstanding.
PoolsIdle == \A c \in Contexts : pool[c] = {}

\* C22: an invocation of the two-phase call acquires at most one region and
\* releases it exactly once: outside the block that holds the allocator no
\* region is outstanding in any pool, whether the invocations so far
\* returned or one of them ended at a failed check, and each release names
\* the region of the acquire before it.
C22_ScratchBalanced ==
    /\ Cardinality(Idx("alloc")) <= 1
    /\ \A f \in Idx("free") :
         /\ f - 1 \in Idx("alloc")
         /\ log[f].ad = log[f - 1].ad /\ log[f].cx = log[f - 1].cx
         /\ \A g \in Idx("free") : g = f
    /\ IF pc = "m630"
       THEN /\ Idx("free") = {} /\ Cardinality(Idx("alloc")) = 1
            /\ workspace_allocator # NULL
            /\ \A c \in Contexts :
                 pool[c] = IF c = workspace_allocator.pool
                           THEN {workspace_allocator.addr} ELSE {}
       ELSE /\ Cardinality(Idx("free")) = Cardinality(Idx("alloc"))
            /\ workspace_allocator = NULL
            /\ PoolsIdle

\* C22 witness: the second dispatch call ended at a failed execute call after
\* it acquired and released a region, and no region is outstanding.
C22_Witness ==
    /\ pc = "aborted" /\ fail = "exec" /\ ncalls = 2
    /\ Idx("alloc") # {} /\ Idx("free") # {}
    /\ PoolsIdle

\* C23: a scratch region passed to an execute call comes from the pool of
\* the context whose stream the call is submitted on: every execute call with
\* a workspace names a region of its own context's pool, acquired in this
\* invocation, and every task of a stream holds a region of that stream's
\* context.
C23_ScratchOfOwnContext ==
    /\ \A j \in Idx("exec") :
         /\ ctx # 0 => log[j].cx = StreamOf(ctx)
         /\ log[j].ad # NULL =>
              /\ log[j].ad.pool = log[j].cx
              /\ \E a \in Idx("alloc") : a < j /\ log[a].ad = log[j].ad /\ log[a].cx = log[j].cx
    /\ \A a \in Idx("alloc") : /\ log[a].ad.pool = log[a].cx
                             /\ ctx # 0 => log[a].cx = ctx
    /\ \A c \in Contexts : \A t \in Pending(c) : t.ws # NULL => t.ws.pool = c

\* C23 witness: both contexts have a task with scratch pending, each with a
\* region of its own pool.
C23_Witness ==
    \A c \in Contexts : \E t \in Pending(c) : t.sz > 0 /\ t.ws.pool = c

\* The tasks of stream c are completed in the order of their submission:
\* completed before executing before queued, each part in submission order.
Fifo(c) ==
    /\ \A j \in 1..Len(done[c]), k \in 1..Len(done[c]) : j < k => done[c][j].id < done[c][k].id
    /\ \A j \in 1..Len(stream[c]), k \in 1..Len(stream[c]) : j < k => stream[c][j].id < stream[c][k].id
    /\ \A j \in 1..Len(done[c]) : \A t \in Pending(c) : done[c][j].id < t.id
    /\ \A t \in running[c] : \A j \in 1..Len(stream[c]) : t.id < stream[c][j].id

\* C24: every task whose execute call was accepted is eventually completed
\* by the device (the device making progress), the tasks of one stream
\* complete in the order of their submission, and no step takes a submitted
\* task away.
C24_RunsToCompletionInOrder ==
    /\ \A c \in Contexts, i \in 1..MaxCalls :
         (\E t \in Pending(c) : t.id = i) ~> (\E j \in 1..Len(done[c]) : done[c][j].id = i)
    /\ [](\A c \in Contexts : Fifo(c))
    /\ [][\A c \in Contexts : Submitted(c) \subseteq Submitted(c)']_vars

\* C24 witness: two tasks submitted to one stream have both completed, the
\* first submitted first.
C24_Witness ==
    \E c \in Contexts :
      /\ Len(done[c]) = 2
      /\ done[c][1].id = 1 /\ done[c][2].id = 2
      /\ Pending(c) = {}

====
